---- MODULE Spec2Model ----
(***************************************************************************)
(* Order lifecycle of testedeprojeto.py (Streamlit + Google Sheets):       *)
(* order entry (tela_cadastro), load building and dispatch (tela_pedidos), *)
(* return and delivery reconciliation (tela_gestao_rotas).                 *)
(*                                                                         *)
(* Conventions                                                             *)
(*  - a worksheet is the sequence of its data rows; the header row of the  *)
(*    sheet is row 1, so data row i is sheet row i + 1 (the code's         *)
(*    enumerate(get_all_values()) index i is then the data row number and  *)
(*    update_cell(i + 1, ..) / delete_rows(i + 1) address data row i).     *)
(*  - a text is the sequence of its characters.                            *)
(*  - a weight is an exact rational number of hundredths of a kg, <<n, d>> *)
(*    in lowest terms; the code's floats are these up to float error.      *)
(*  - the date/timestamp columns (datetime.now()) are left out of rows.    *)
(***************************************************************************)
EXTENDS Integers, Sequences, FiniteSets, TLC

VARIABLES
    usuarios,        \* worksheet "usuarios"
    produtos,        \* worksheet "produtos"
    pedidos,         \* worksheet "pedidos"
    historico,       \* worksheet "historico"
    log_operacoes,   \* worksheet "log_operacoes": its number of rows
    usuario_logado,  \* st.session_state.usuario_logado, per browser session
    pc,              \* where each session's script run stands
    tela,            \* local variables of the session's current script run
    criadas          \* history: boxes entered in tela_cadastro, net of its
                     \* edits and deletions

vars == <<usuarios, produtos, pedidos, historico, log_operacoes,
          usuario_logado, pc, tela, criadas>>

(***************************************************************************)
(* Bounds of the model.                                                    *)
(***************************************************************************)
MaxId == 2        \* ids given by "Confirmar Lançamento"
MaxCx == 2        \* boxes typed into a box-count field
MaxHist == 1      \* rows of "historico" in the lifecycle specifications
MaxBaixas == 2    \* rows of "historico" in the reconciliation specifications
MaxCxRota == 3    \* boxes of a drawn order
MaxLog == 1       \* rows of "log_operacoes"
MaxPeso == 15     \* weight (hundredths of a kg) of a drawn order
MaxLinhas == 2    \* rows of a drawn "pedidos" sheet

Sessoes == {"s1", "s2"}
Nenhum == [nenhum |-> TRUE]
\* a missing text value of a frame (pandas NaN); no text of characters equals it
NaN == <<"NaN">>

(***************************************************************************)
(* Texts.                                                                  *)
(***************************************************************************)
Txt_A == <<"A">>
Txt_B == <<"B">>
Txt_SP == <<"S", "P">>
Txt_RJ == <<"R", "J">>
Txt_X == <<"X">>
Txt_Y == <<"Y">>

\* Code-point order of the characters the model uses (Python compares
\* strings by code point).
Alfabeto == <<" ", "(", ")", "A", "B", "J", "P", "R", "S", "X", "Y">>

Ord(c) == CHOOSE k \in 1..Len(Alfabeto) : Alfabeto[k] = c

RECURSIVE TxtMenor(_, _)
TxtMenor(a, b) ==
    IF b = <<>> THEN FALSE
    ELSE IF a = <<>> THEN TRUE
    ELSE IF Head(a) = Head(b) THEN TxtMenor(Tail(a), Tail(b))
    ELSE Ord(Head(a)) < Ord(Head(b))

\* f"{cliente} ({uf})"
Rotulo(cliente, uf) == cliente \o <<" ", "(">> \o uf \o <<")">>

\* Series.str.extract(r'\((.*?)\)'): the text between the leftmost "(" that
\* has a ")" after it and the first ")" after that "("; NaN when none.
UfExtraida(cliente) ==
    LET abre == {i \in 1..Len(cliente) :
                    /\ cliente[i] = "("
                    /\ \E j \in (i+1)..Len(cliente) : cliente[j] = ")"}
    IN  IF abre = {} THEN NaN
        ELSE LET i == CHOOSE x \in abre : \A y \in abre : x <= y
                 j == CHOOSE x \in (i+1)..Len(cliente) :
                        /\ cliente[x] = ")"
                        /\ \A y \in (i+1)..(x-1) : cliente[y] # ")"
             IN  SubSeq(cliente, i + 1, j - 1)

(***************************************************************************)
(* Weights: exact rationals <<n, d>>, d > 0, in lowest terms.              *)
(***************************************************************************)
RECURSIVE Mdc(_, _)
Mdc(a, b) == IF b = 0 THEN a ELSE Mdc(b, a % b)

Abs(x) == IF x < 0 THEN -x ELSE x

Rac(n, d) == LET g == Mdc(Abs(n), d) IN <<n \div g, d \div g>>

Inteiro(n) == <<n, 1>>

RacSoma(a, b) == Rac(a[1] * b[2] + b[1] * a[2], a[2] * b[2])

\* k * x and x / k for an integer k (k > 0 in the division)
RacVezes(k, x) == Rac(k * x[1], x[2])

RacDiv(x, k) == Rac(x[1], x[2] * k)

\* round(x, 2) of a weight in kg, that is rounding x (in hundredths) to an
\* integer.  Away from a tie the result is the nearest integer; at an exact
\* tie of the rational value the float that stands for it lies on either
\* side (round(0.075, 2) = 0.07, round(0.005, 2) = 0.01), so both are kept.
Round2(x) ==
    LET q == x[1] \div x[2]
        resto == x[1] % x[2]
    IN  IF 2 * resto < x[2] THEN {Inteiro(q)}
        ELSE IF 2 * resto > x[2] THEN {Inteiro(q + 1)}
        ELSE {Inteiro(q), Inteiro(q + 1)}

(***************************************************************************)
(* Worksheet helpers.                                                      *)
(***************************************************************************)
Range(s) == {s[i] : i \in DOMAIN s}

\* Worksheet.delete_rows(i + 1)
DeleteRow(s, i) == [k \in 1..(Len(s) - 1) |-> IF k < i THEN s[k] ELSE s[k + 1]]

\* rows of a frame with a given status, kept in sheet order (boolean mask)
RECURSIVE Filtra(_, _)
Filtra(s, st) ==
    IF s = <<>> THEN <<>>
    ELSE IF Head(s).status = st THEN <<Head(s)>> \o Filtra(Tail(s), st)
    ELSE Filtra(Tail(s), st)

RECURSIVE SomaCaixas(_)
SomaCaixas(s) == IF s = <<>> THEN 0 ELSE Head(s).caixas + SomaCaixas(Tail(s))

RECURSIVE SomaPeso(_)
SomaPeso(s) ==
    IF s = <<>> THEN Inteiro(0) ELSE RacSoma(Head(s).peso, SomaPeso(Tail(s)))

Ids(s) == {s[i].id : i \in DOMAIN s}

Max(S) == CHOOSE x \in S : \A y \in S : y <= x

\* sub-frame of the rows at the positions sel (DataFrame.iloc), in order
RECURSIVE Iloc(_, _)
Iloc(s, sel) ==
    IF s = <<>> THEN <<>>
    ELSE LET resto == Iloc(Tail(s), {k - 1 : k \in sel \ {1}})
         IN  IF 1 \in sel THEN <<Head(s)>> \o resto ELSE resto

(***************************************************************************)
(* Access policy (main script, tela_pedidos).                              *)
(***************************************************************************)
op_full == <<"Cadastro", "Produtos", "Pedidos", "Gestão de Rotas",
             "Relatórios", "Gestão de Usuários", "Logs">>

\* opcoes: the screens the sidebar menu offers to a user
Opcoes(user) ==
    IF user.modulos = <<"todos">> THEN Range(op_full) ELSE Range(user.modulos)

\* (mutant) the login name tested for truth instead of compared
PodeConfirmarSaida_Mut(user) == user.nivel = "total" \/ user.usuario # ""

\* user['nivel'] == 'total' or user['usuario'] == 'admin'
PodeConfirmarSaida(user) == user.nivel = "total" \/ user.usuario = "admin"

Quieto(s) == pc[s] \in {"menu", "carga", "rerun", "erro"}

NoMenu(s, modulo) ==
    /\ Quieto(s)
    /\ usuario_logado[s] # Nenhum
    /\ modulo \in Opcoes(usuario_logado[s])

(***************************************************************************)
(* registrar_log: appends one row to "log_operacoes", and swallows every   *)
(* failure.  No handler reads the rows back, so the sheet is modelled by   *)
(* its number of rows; once it holds MaxLog rows the model keeps only the  *)
(* runs whose write fails.                                                 *)
(***************************************************************************)
RegistrarLog(usuario, acao, detalhes) ==
    \/ /\ log_operacoes < MaxLog
       /\ log_operacoes' = log_operacoes + 1
    \/ log_operacoes' = log_operacoes

(***************************************************************************)
(* Login form and "Sair".                                                  *)
(***************************************************************************)
\* login_usuario: the first row matching login and password, or None
login_usuario(usuario, senha) ==
    LET user_match == {i \in DOMAIN usuarios :
                          usuarios[i].usuario = usuario /\ usuarios[i].senha = senha}
    IN  IF user_match = {} THEN Nenhum
        ELSE usuarios[CHOOSE i \in user_match : \A j \in user_match : i <= j]

Senhas == {"1", "2", "3"}

Login(s) ==
    /\ pc[s] = "login"
    /\ \E u \in {usuarios[i].usuario : i \in DOMAIN usuarios}, senha \in Senhas :
          LET d == login_usuario(u, senha)
          IN  /\ d # Nenhum
              /\ usuario_logado' = [usuario_logado EXCEPT ![s] = d]
    /\ pc' = [pc EXCEPT ![s] = "menu"]
    /\ UNCHANGED <<usuarios, produtos, pedidos, historico, log_operacoes,
                   tela, criadas>>

Sair(s) ==
    /\ Quieto(s)
    /\ usuario_logado[s] # Nenhum
    /\ usuario_logado' = [usuario_logado EXCEPT ![s] = Nenhum]
    /\ pc' = [pc EXCEPT ![s] = "login"]
    /\ tela' = [tela EXCEPT ![s] = Nenhum]
    /\ UNCHANGED <<usuarios, produtos, pedidos, historico, log_operacoes,
                   criadas>>

(***************************************************************************)
(* tela_cadastro.                                                          *)
(***************************************************************************)
\* the inputs the model draws
Clientes == {Txt_A}
PesosReais == {Inteiro(25)}

proximo_id(df_ped) == IF df_ped = <<>> THEN 1 ELSE Max(Ids(df_ped)) + 1

Pedido(id, cliente, produto, caixas, peso, status) ==
    [id |-> id, cliente |-> cliente, produto |-> produto, caixas |-> caixas,
     peso |-> peso, status |-> status]

\* "Confirmar Lançamento"; estados: the entries of the "Estado" box drawn
Lancar(s, estados) ==
    /\ NoMenu(s, "Cadastro")
    /\ proximo_id(pedidos) <= MaxId
    /\ \E cliente \in Clientes, uf \in estados, p \in DOMAIN produtos, qtd \in 1..MaxCx :
          \E peso_f \in IF produtos[p].tipo = "padrão"
                        THEN {Inteiro(qtd * produtos[p].peso_unitario)}
                        ELSE PesosReais :
              /\ pedidos' = Append(pedidos,
                                Pedido(proximo_id(pedidos), Rotulo(cliente, uf),
                                       produtos[p].descricao, qtd, peso_f, "pendente"))
              /\ criadas' = criadas + qtd
    /\ RegistrarLog(usuario_logado[s].usuario, "CADASTRO", proximo_id(pedidos))
    /\ pc' = [pc EXCEPT ![s] = "menu"]
    /\ tela' = [tela EXCEPT ![s] = Nenhum]
    /\ UNCHANGED <<usuarios, produtos, historico, usuario_logado>>

\* "Salvar Alterações": every row whose id is the selected order's id gets
\* the new label, the new box count and ed_qtd * p_u
SalvarAlteracoes(data, ped_sel, ed_cli, ed_qtd) ==
    LET p_u == RacDiv(ped_sel.peso, ped_sel.caixas)
    IN  [i \in DOMAIN data |->
            IF data[i].id = ped_sel.id
            THEN [data[i] EXCEPT !.cliente = ed_cli, !.caixas = ed_qtd,
                                 !.peso = RacVezes(ed_qtd, p_u)]
            ELSE data[i]]

\* rotulos: the texts typed over the label that the model draws
Editar(s, rotulos) ==
    /\ NoMenu(s, "Cadastro")
    /\ LET df_pend == Filtra(pedidos, "pendente")
       IN  \E sel_edit \in DOMAIN df_pend :
             \E ed_cli \in {df_pend[sel_edit].cliente} \cup rotulos,
                ed_qtd \in 1..MaxCx :
                 pedidos' = SalvarAlteracoes(pedidos, df_pend[sel_edit], ed_cli, ed_qtd)
    /\ criadas' = criadas + SomaCaixas(pedidos') - SomaCaixas(pedidos)
    /\ pc' = [pc EXCEPT ![s] = "menu"]
    /\ tela' = [tela EXCEPT ![s] = Nenhum]
    /\ UNCHANGED <<usuarios, produtos, historico, log_operacoes, usuario_logado>>

\* "EXCLUIR PEDIDO": the first row whose id is the selected order's id
ExcluirPedido(data, ped_sel) ==
    LET achados == {i \in DOMAIN data : data[i].id = ped_sel.id}
    IN  IF achados = {} THEN data
        ELSE DeleteRow(data, CHOOSE i \in achados : \A j \in achados : i <= j)

Excluir(s) ==
    /\ NoMenu(s, "Cadastro")
    /\ LET df_pend == Filtra(pedidos, "pendente")
       IN  \E sel_edit \in DOMAIN df_pend :
              pedidos' = ExcluirPedido(pedidos, df_pend[sel_edit])
    /\ criadas' = criadas + SomaCaixas(pedidos') - SomaCaixas(pedidos)
    /\ pc' = [pc EXCEPT ![s] = "menu"]
    /\ tela' = [tela EXCEPT ![s] = Nenhum]
    /\ UNCHANGED <<usuarios, produtos, historico, log_operacoes, usuario_logado>>

(***************************************************************************)
(* tela_pedidos: region filter, load matrix, dispatch.                     *)
(***************************************************************************)
\* sorted(df_pendentes['uf_extraida'].dropna().unique())
ufs(df_pendentes) ==
    {UfExtraida(df_pendentes[i].cliente) : i \in DOMAIN df_pendentes} \ {NaN}

\* df_pendentes[df_pendentes['uf_extraida'].isin(f_uf)]
RECURSIVE df_filtrado(_, _)
df_filtrado(df_pendentes, f_uf) ==
    IF df_pendentes = <<>> THEN <<>>
    ELSE IF UfExtraida(Head(df_pendentes).cliente) \in f_uf
         THEN <<Head(df_pendentes)>> \o df_filtrado(Tail(df_pendentes), f_uf)
         ELSE df_filtrado(Tail(df_pendentes), f_uf)

\* order of the pivot's (id, cliente) index
ChaveMenor(a, b) == a[1] < b[1] \/ (a[1] = b[1] /\ TxtMenor(a[2], b[2]))

\* the sorted index and the sorted columns of the pivot
RECURSIVE OrdenaChaves(_)
OrdenaChaves(S) ==
    IF S = {} THEN <<>>
    ELSE LET m == CHOOSE x \in S : \A y \in S \ {x} : ChaveMenor(x, y)
         IN  <<m>> \o OrdenaChaves(S \ {m})

RECURSIVE OrdenaTxt(_)
OrdenaTxt(S) ==
    IF S = {} THEN <<>>
    ELSE LET m == CHOOSE x \in S : \A y \in S \ {x} : TxtMenor(x, y)
         IN  <<m>> \o OrdenaTxt(S \ {m})

TotalCx == <<"TOTAL CX">>
TotalCaixas == <<"TOTAL CAIXAS">>
TotalPeso == <<"TOTAL PESO (kg)">>

\* one cell of pivot_table(index=['id','cliente'], columns='produto',
\* values='caixas', aggfunc='sum', fill_value=0)
Celula(df_sel, chave, produto) ==
    SomaCaixas(SelectSeq(df_sel,
        LAMBDA o : o.id = chave[1] /\ o.cliente = chave[2] /\ o.produto = produto))

RECURSIVE SomaSeq(_)
SomaSeq(s) == IF s = <<>> THEN 0 ELSE Head(s) + SomaSeq(Tail(s))

\* matriz, after matriz['TOTAL CX'] = matriz.sum(axis=1)
matriz(df_sel) ==
    LET indice == OrdenaChaves({<<df_sel[i].id, df_sel[i].cliente>> : i \in DOMAIN df_sel})
        prods == OrdenaTxt({df_sel[i].produto : i \in DOMAIN df_sel})
        linha(chave) ==
            LET cel == [c \in Range(prods) |-> Celula(df_sel, chave, c)]
            IN  [c \in Range(prods) \cup {TotalCx} |->
                    IF c = TotalCx
                    THEN SomaSeq([k \in DOMAIN prods |-> cel[prods[k]]])
                    ELSE cel[c]]
    IN  [columns |-> prods \o <<TotalCx>>,
         rows |-> [k \in DOMAIN indice |->
                      [index |-> indice[k], vals |-> linha(indice[k])]]]

\* (mutant) the column sums taken before the 'TOTAL CX' column exists
totais_cx_Mut(m) ==
    [index |-> TotalCaixas,
     vals |-> [c \in Range(m.columns) |->
                  IF c = TotalCx THEN 0
                  ELSE SomaSeq([k \in DOMAIN m.rows |-> m.rows[k].vals[c]])]]

\* totais_cx = matriz.sum(): the column sums of matriz, 'TOTAL CX' included
totais_cx(m) ==
    [index |-> TotalCaixas,
     vals |-> [c \in Range(m.columns) |->
                  SomaSeq([k \in DOMAIN m.rows |-> m.rows[k].vals[c]])]]

\* peso_resumo: the weight per product, reindexed on matriz's columns with
\* fill 0, then its 'TOTAL CX' cell set to the selection's weight
peso_resumo(df_sel, m) ==
    [index |-> TotalPeso,
     vals |-> [c \in Range(m.columns) |->
                  IF c = TotalCx THEN SomaPeso(df_sel)
                  ELSE SomaPeso(SelectSeq(df_sel, LAMBDA o : o.produto = c))]]

\* df_final = pd.concat([matriz, totais_cx, peso_resumo])
df_final(df_sel) ==
    LET m == matriz(df_sel)
    IN  [columns |-> m.columns,
         rows |-> m.rows \o <<totais_cx(m), peso_resumo(df_sel, m)>>]

\* "Confirmar Saída para Rota": every row whose id is selected goes 'em rota'
MarcaStatus(data, ids, status) ==
    [i \in DOMAIN data |->
        IF data[i].id \in ids THEN [data[i] EXCEPT !.status = status] ELSE data[i]]

\* One run of tela_pedidos with a non-empty selection in which the user
\* presses "Confirmar Saída para Rota".  The button exists only past the
\* permission test; the run ends in st.rerun().
ConfirmarSaida(s) ==
    /\ NoMenu(s, "Pedidos")
    /\ PodeConfirmarSaida(usuario_logado[s])
    /\ LET df_pendentes == Filtra(pedidos, "pendente")
       IN  \E f_uf \in SUBSET ufs(df_pendentes) :
             LET filtrado == df_filtrado(df_pendentes, f_uf)
             IN  \E rows \in SUBSET (DOMAIN filtrado) \ {{}} :
                    pedidos' = MarcaStatus(pedidos, Ids(Iloc(filtrado, rows)), "em rota")
    /\ RegistrarLog(usuario_logado[s].usuario, "ROTA", "Carga confirmada")
    /\ pc' = [pc EXCEPT ![s] = "menu"]
    /\ tela' = [tela EXCEPT ![s] = Nenhum]
    /\ UNCHANGED <<usuarios, produtos, historico, usuario_logado, criadas>>

\* One run of tela_pedidos with a non-empty selection that does not dispatch:
\* the button is not pressed, or the user fails the permission test and has
\* no button to press.  The run shows df_final, and the warning to a user of
\* nivel 'visualizacao'.
VerCarga(s) ==
    /\ NoMenu(s, "Pedidos")
    /\ LET df_pendentes == Filtra(pedidos, "pendente")
           user == usuario_logado[s]
       IN  \E f_uf \in SUBSET ufs(df_pendentes) :
             LET filtrado == df_filtrado(df_pendentes, f_uf)
             IN  \E rows \in SUBSET (DOMAIN filtrado) \ {{}} :
                   LET df_sel == Iloc(filtrado, rows)
                   IN  tela' = [tela EXCEPT ![s] =
                                  [df_p |-> pedidos, f_uf |-> f_uf, df_sel |-> df_sel,
                                   df_final |-> df_final(df_sel),
                                   aviso |-> user.nivel = "visualizacao"]]
    /\ pc' = [pc EXCEPT ![s] = "carga"]
    /\ UNCHANGED <<usuarios, produtos, pedidos, historico, log_operacoes,
                   usuario_logado, criadas>>

(***************************************************************************)
(* tela_gestao_rotas: return to pending, delivery reconciliation.          *)
(***************************************************************************)
\* "Confirmar Retorno": every row whose id is selected goes back to pending
Retorno(s) ==
    /\ NoMenu(s, "Gestão de Rotas")
    /\ LET df_rota == Filtra(pedidos, "em rota")
       IN  \E rows \in SUBSET (DOMAIN df_rota) \ {{}} :
              pedidos' = MarcaStatus(pedidos, Ids(Iloc(df_rota, rows)), "pendente")
    /\ pc' = [pc EXCEPT ![s] = "menu"]
    /\ tela' = [tela EXCEPT ![s] = Nenhum]
    /\ UNCHANGED <<usuarios, produtos, historico, log_operacoes, usuario_logado,
                   criadas>>

\* (mutant) floor division
peso_u_Mut(r) == Inteiro(r.peso[1] \div (r.peso[2] * r.caixas))

\* peso_u = float(r['peso']) / int(r['caixas'])
peso_u(r) == RacDiv(r.peso, r.caixas)

\* "Confirmar Baixa <id>" is pressed for the row r of the frame read at the
\* top of the run, with the delivered quantity qtd_s in 0..r.caixas.  The
\* writes that follow are separate calls to the sheet.
\* (hist0 is history: the "historico" sheet when the run began; lim bounds
\* the rows of "historico".)
BaixaClick(s, lim) ==
    /\ NoMenu(s, "Gestão de Rotas")
    /\ Len(historico) + Cardinality({t \in Sessoes : pc[t] = "baixa_hist"}) < lim
    /\ LET df_rota == Filtra(pedidos, "em rota")
       IN  \E k \in DOMAIN df_rota :
             \E qtd_s \in 0..df_rota[k].caixas :
                tela' = [tela EXCEPT ![s] =
                           [df |-> pedidos, r |-> df_rota[k], qtd_s |-> qtd_s,
                            peso_u |-> peso_u(df_rota[k]),
                            i |-> 0, hist0 |-> historico]]
    /\ pc' = [pc EXCEPT ![s] = "baixa_hist"]
    /\ UNCHANGED <<usuarios, produtos, pedidos, historico, log_operacoes,
                   usuario_logado, criadas>>

Entrega(id, cliente, produto, caixas, peso) ==
    [id |-> id, cliente |-> cliente, produto |-> produto, caixas |-> caixas,
     peso |-> peso, status |-> "entregue"]

\* 1. sh_hist.append_row([...])
BaixaHist(s) ==
    /\ pc[s] = "baixa_hist"
    /\ LET t == tela[s]
       IN  \E peso \in Round2(RacVezes(t.qtd_s, t.peso_u)) :
              historico' = Append(historico,
                  Entrega(t.r.id, t.r.cliente, t.r.produto, t.qtd_s, peso))
    /\ pc' = [pc EXCEPT ![s] = "baixa_sobra"]
    /\ UNCHANGED <<usuarios, produtos, pedidos, log_operacoes, usuario_logado,
                   tela, criadas>>

\* (mutant) the delivered boxes are not taken off
sobra_Mut(r, qtd_s) == r.caixas

\* sobra = int(r['caixas']) - qtd_s
sobra(r, qtd_s) == r.caixas - qtd_s

\* (mutant) a residual row written for a full delivery too
TemSobra_Mut(n) == n >= 0

\* if sobra > 0:
TemSobra(n) == n > 0

\* (mutant) the residual written over the row of the same id
AnexaSobra_Mut(data, linha) ==
    [i \in DOMAIN data |-> IF data[i].id = linha.id THEN linha ELSE data[i]]

\* sh_pedidos.append_row(linha)
AnexaSobra(data, linha) == Append(data, linha)

\* 2. if sobra > 0: sh_pedidos.append_row([...])
BaixaSobra(s) ==
    /\ pc[s] = "baixa_sobra"
    /\ LET t == tela[s]
           n == sobra(t.r, t.qtd_s)
       IN  IF TemSobra(n)
           THEN \E peso \in Round2(RacVezes(n, t.peso_u)) :
                   pedidos' = AnexaSobra(pedidos,
                       Pedido(t.r.id, t.r.cliente, t.r.produto, n, peso, "pendente"))
           ELSE pedidos' = pedidos
    /\ pc' = [pc EXCEPT ![s] = "baixa_scan"]
    /\ UNCHANGED <<usuarios, produtos, historico, log_operacoes, usuario_logado,
                   tela, criadas>>

\* (mutant) the status compared with a text no row carries
LinhaEmRota_Mut(data_ped, id) ==
    LET achados == {i \in DOMAIN data_ped :
                       data_ped[i].id = id /\ data_ped[i].status = "em_rota"}
    IN  IF achados = {} THEN 0
        ELSE CHOOSE i \in achados : \A j \in achados : i <= j

\* the scan of step 3: the first row with r's id in status 'em rota' (0: none)
LinhaEmRota(data_ped, id) ==
    LET achados == {i \in DOMAIN data_ped :
                       data_ped[i].id = id /\ data_ped[i].status = "em rota"}
    IN  IF achados = {} THEN 0
        ELSE CHOOSE i \in achados : \A j \in achados : i <= j

\* 3. data_ped = sh_pedidos.get_all_values() and the scan
BaixaScan(s) ==
    /\ pc[s] = "baixa_scan"
    /\ LET i == LinhaEmRota(pedidos, tela[s].r.id)
       IN  /\ tela' = [tela EXCEPT ![s].i = i]
           /\ pc' = [pc EXCEPT ![s] = IF i = 0 THEN "rerun" ELSE "baixa_del"]
    /\ UNCHANGED <<usuarios, produtos, pedidos, historico, log_operacoes,
                   usuario_logado, criadas>>

\* 3. sh_pedidos.delete_rows(i + 1), then st.rerun()
BaixaDelete(s) ==
    /\ pc[s] = "baixa_del"
    /\ pedidos' = IF tela[s].i <= Len(pedidos)
                  THEN DeleteRow(pedidos, tela[s].i) ELSE pedidos
    /\ pc' = [pc EXCEPT ![s] = "rerun"]
    /\ UNCHANGED <<usuarios, produtos, historico, log_operacoes, usuario_logado,
                   tela, criadas>>

\* A call to the sheet raises (or the run is cut) before the write at pc[s]:
\* the exception ends the run; nothing is undone.
Falha(s) ==
    /\ pc[s] \in {"baixa_hist", "baixa_sobra", "baixa_scan", "baixa_del"}
    /\ tela' = [tela EXCEPT ![s] = tela[s] @@ [etapa |-> pc[s]]]
    /\ pc' = [pc EXCEPT ![s] = "erro"]
    /\ UNCHANGED <<usuarios, produtos, pedidos, historico, log_operacoes,
                   usuario_logado, criadas>>

(***************************************************************************)
(* Sheets the specifications start from.                                   *)
(***************************************************************************)
Usuario(usuario, senha, nivel, modulos) ==
    [usuario |-> usuario, senha |-> senha, nivel |-> nivel, modulos |-> modulos]

Produto(descricao, peso_unitario, tipo) ==
    [descricao |-> descricao, peso_unitario |-> peso_unitario, tipo |-> tipo]

\* the boxes ticked by default in tela_usuarios
ModulosPadrao ==
    <<"Cadastro", "Produtos", "Pedidos", "Gestão de Rotas", "Logs", "Relatórios">>

Joao == Usuario("joao", "2", "total", ModulosPadrao)
Ana == Usuario("ana", "3", "visualizacao", ModulosPadrao)
Admin == Usuario("admin", "1", "visualizacao", <<"todos">>)

ProdutoX == Produto(Txt_X, 5, "padrão")
ProdutoY == Produto(Txt_Y, 0, "variável")

\* the least weight the "Peso Real" field takes (min_value=0.1), in hundredths
PesoRealMin == 10

\* Everyone signed out, the order sheets empty.
Vazio(us, prods) ==
    /\ usuarios = us
    /\ produtos = prods
    /\ pedidos = <<>>
    /\ historico = <<>>
    /\ log_operacoes = 0
    /\ usuario_logado = [s \in Sessoes |-> Nenhum]
    /\ pc = [s \in Sessoes |-> "login"]
    /\ tela = [s \in Sessoes |-> Nenhum]
    /\ criadas = 0

\* Joao signed in on the sessions ss, on top of order sheets already filled.
Aberto(ss) ==
    /\ usuarios = <<Joao>>
    /\ produtos = <<ProdutoX, ProdutoY>>
    /\ log_operacoes = 0
    /\ usuario_logado = [s \in Sessoes |-> IF s \in ss THEN Joao ELSE Nenhum]
    /\ pc = [s \in Sessoes |-> IF s \in ss THEN "menu" ELSE "login"]
    /\ tela = [s \in Sessoes |-> Nenhum]
    /\ criadas = SomaCaixas(pedidos) + SomaCaixas(historico)

(***************************************************************************)
(* Spec: one session, the whole order lifecycle, every write succeeds.     *)
(***************************************************************************)
Init == Vazio(<<Joao>>, <<ProdutoY>>)

Next ==
    \/ Login("s1")
    \/ Sair("s1")
    \/ Lancar("s1", {Txt_SP})
    \/ Editar("s1", {})
    \/ Excluir("s1")
    \/ ConfirmarSaida("s1")
    \/ Retorno("s1")
    \/ BaixaClick("s1", MaxHist)
    \/ BaixaHist("s1")
    \/ BaixaSobra("s1")
    \/ BaixaScan("s1")
    \/ BaixaDelete("s1")

Spec == Init /\ [][Next]_vars

(***************************************************************************)
(* SpecCiclo: the lifecycle without the edit and delete of pending orders. *)
(***************************************************************************)
NextCiclo ==
    \/ Login("s1")
    \/ Lancar("s1", {Txt_SP})
    \/ ConfirmarSaida("s1")
    \/ Retorno("s1")
    \/ BaixaClick("s1", MaxHist)
    \/ BaixaHist("s1")
    \/ BaixaSobra("s1")
    \/ BaixaScan("s1")
    \/ BaixaDelete("s1")

SpecCiclo == Init /\ [][NextCiclo]_vars

(***************************************************************************)
(* SpecPeso: one order, as entered with a real weight, then edited,        *)
(* dispatched, returned and reconciled.                                    *)
(***************************************************************************)
InitPeso ==
    /\ \E n \in 1..MaxCxRota, w \in PesoRealMin..MaxPeso :
          pedidos = << Pedido(1, Rotulo(Txt_A, Txt_SP), Txt_Y, n, Inteiro(w), "pendente") >>
    /\ historico = <<>>
    /\ Aberto({"s1"})

NextPeso ==
    \/ Editar("s1", {})
    \/ ConfirmarSaida("s1")
    \/ Retorno("s1")
    \/ BaixaClick("s1", MaxHist)
    \/ BaixaHist("s1")
    \/ BaixaSobra("s1")
    \/ BaixaScan("s1")
    \/ BaixaDelete("s1")

SpecPeso == InitPeso /\ [][NextPeso]_vars

(***************************************************************************)
(* SpecFalha and SpecCorrida: delivery reconciliation of an order in       *)
(* route, among other rows; in SpecFalha one session whose run may fail at *)
(* any call, in SpecCorrida two sessions.                                  *)
(***************************************************************************)
OutroPendente == Pedido(2, Rotulo(Txt_B, Txt_RJ), Txt_X, 1, Inteiro(5), "pendente")
OutroEmRota == Pedido(3, Rotulo(Txt_B, Txt_RJ), Txt_X, 2, Inteiro(10), "em rota")
EntregaAntiga == Entrega(4, Rotulo(Txt_B, Txt_RJ), Txt_X, 1, Inteiro(5))

EmRota(n, w) == Pedido(1, Rotulo(Txt_A, Txt_SP), Txt_Y, n, Inteiro(w), "em rota")

InitFalha ==
    /\ \E n \in 1..MaxCxRota, w \in {0} \cup (PesoRealMin..MaxPeso),
          antes \in {<<>>, <<OutroPendente>>}, depois \in {<<>>, <<OutroEmRota>>} :
          pedidos = antes \o <<EmRota(n, w)>> \o depois
    /\ historico \in {<<>>, <<EntregaAntiga>>}
    /\ Aberto({"s1"})

NextFalha ==
    \/ BaixaClick("s1", MaxBaixas)
    \/ BaixaHist("s1")
    \/ BaixaSobra("s1")
    \/ BaixaScan("s1")
    \/ BaixaDelete("s1")
    \/ Falha("s1")

SpecFalha == InitFalha /\ [][NextFalha]_vars

InitCorrida ==
    /\ \E n \in 1..MaxCxRota, antes \in {<<>>, <<OutroPendente>>},
          depois \in {<<>>, <<OutroEmRota>>} :
          pedidos = antes \o <<EmRota(n, 25)>> \o depois
    /\ historico = <<>>
    /\ Aberto(Sessoes)

NextCorrida ==
    \E s \in Sessoes :
        \/ BaixaClick(s, MaxBaixas)
        \/ BaixaHist(s)
        \/ BaixaSobra(s)
        \/ BaixaScan(s)
        \/ BaixaDelete(s)

SpecCorrida == InitCorrida /\ [][NextCorrida]_vars

(***************************************************************************)
(* SpecSaida: the load-building screen under the three kinds of identity.  *)
(***************************************************************************)
InitSaida == Vazio(<<Admin, Joao, Ana>>, <<ProdutoX>>)

NextSaida ==
    \/ Login("s1")
    \/ Sair("s1")
    \/ Lancar("s1", {Txt_SP})
    \/ Editar("s1", {Txt_A})
    \/ VerCarga("s1")
    \/ ConfirmarSaida("s1")

SpecSaida == InitSaida /\ [][NextSaida]_vars

(***************************************************************************)
(* SpecMatriz: the load matrix of every selection of drawn pending orders. *)
(***************************************************************************)
LinhasDeCarga ==
    { Pedido(id, Rotulo(c[1], c[2]), p[1], n, Inteiro(n * p[2]), "pendente") :
        id \in 1..2, c \in {<<Txt_A, Txt_SP>>, <<Txt_B, Txt_RJ>>},
        p \in {<<Txt_X, 5>>, <<Txt_Y, 12>>}, n \in 1..2 }

InitMatriz ==
    /\ \E k \in 1..MaxLinhas : pedidos \in [1..k -> LinhasDeCarga]
    /\ historico = <<>>
    /\ Aberto({"s1"})

NextMatriz == VerCarga("s1")

SpecMatriz == InitMatriz /\ [][NextMatriz]_vars

(***************************************************************************)
(* Properties.                                                             *)
(***************************************************************************)
Ultimo(seq) == seq[Len(seq)]

\* seq is ant with exactly one row appended
UmaAMais(seq, ant) == Len(seq) = Len(ant) + 1 /\ SubSeq(seq, 1, Len(ant)) = ant

NumEmRota(data) == Len(Filtra(data, "em rota"))

\* a and b carry the same weight per box
MesmoPesoPorCaixa(a, b) == RacVezes(b.caixas, a.peso) = RacVezes(a.caixas, b.peso)

\* |x| <= 1/2 for a rational x
AteMeio(x) == 2 * Abs(x[1]) <= x[2]

RECURSIVE CaixasEm(_, _)
\* the boxes of the rows of df at the positions I
CaixasEm(df, I) ==
    IF I = {} THEN 0
    ELSE LET i == CHOOSE x \in I : TRUE IN df[i].caixas + CaixasEm(df, I \ {i})

RECURSIVE PesoEm(_, _)
\* the weight of the rows of df at the positions I
PesoEm(df, I) ==
    IF I = {} THEN Inteiro(0)
    ELSE LET i == CHOOSE x \in I : TRUE IN RacSoma(df[i].peso, PesoEm(df, I \ {i}))

\* C1: the dispatch turns pending orders 'em rota' only for an identity with
\* nivel 'total' or the login 'admin'; a run of the load screen by any other
\* identity writes no row of "pedidos" and leaves every selected order
\* pending.
C1_SaidaExigePermissao ==
    [][ LET user == usuario_logado["s1"]
            permitido == user.nivel = "total" \/ user.usuario = "admin"
        IN  /\ NumEmRota(pedidos') > NumEmRota(pedidos) => permitido
            /\ (pc'["s1"] = "carga" /\ ~permitido) =>
                  /\ pedidos' = pedidos
                  /\ \A k \in DOMAIN tela'["s1"].df_sel :
                        /\ tela'["s1"].df_sel[k] \in Range(pedidos')
                        /\ tela'["s1"].df_sel[k].status = "pendente" ]_vars

\* C1 witness: a read-only identity has run the load screen on a selection
\* and got the warning, while another order, dispatched earlier, is in route.
C1_Witness ==
    /\ pc["s1"] = "carga"
    /\ usuario_logado["s1"].usuario = "ana"
    /\ tela["s1"].aviso
    /\ NumEmRota(pedidos) > 0

\* C2: a delivery reconciliation that ran to its end has appended exactly one
\* history entry (the order's id, qtd_s boxes, 'entregue'), has removed the
\* original row, and has appended exactly one pending row with the same id
\* and caixas - qtd_s boxes when that is positive and none otherwise; every
\* other row of "pedidos" and "historico" is as it was.
C2_BaixaCompleta ==
    pc["s1"] = "rerun" =>
        LET t == tela["s1"]
            k == CHOOSE i \in DOMAIN t.df : t.df[i] = t.r
            sem_original == DeleteRow(t.df, k)
            resto == t.r.caixas - t.qtd_s
        IN  /\ UmaAMais(historico, t.hist0)
            /\ Ultimo(historico).id = t.r.id
            /\ Ultimo(historico).caixas = t.qtd_s
            /\ Ultimo(historico).status = "entregue"
            /\ IF resto > 0
               THEN /\ UmaAMais(pedidos, sem_original)
                    /\ Ultimo(pedidos).id = t.r.id
                    /\ Ultimo(pedidos).caixas = resto
                    /\ Ultimo(pedidos).status = "pendente"
               ELSE pedidos = sem_original

\* C2 witness: a partial delivery has run to its end among other rows of
\* "pedidos" and an older history entry.
C2_Witness ==
    /\ pc["s1"] = "rerun"
    /\ 0 < tela["s1"].qtd_s
    /\ tela["s1"].qtd_s < tela["s1"].r.caixas
    /\ Len(tela["s1"].df) = 3
    /\ tela["s1"].hist0 # <<>>

\* C3: a pending order whose label holds no parenthesised region code is in
\* the result of no region filter, but is among the rows offered for
\* selection when the filter is left at its default (every region).
C3_SemUfFicaSelecionavel ==
    LET df_pendentes == Filtra(pedidos, "pendente")
        todas == ufs(df_pendentes)
    IN  \A i \in DOMAIN df_pendentes :
            UfExtraida(df_pendentes[i].cliente) = NaN =>
                /\ \A f_uf \in (SUBSET todas) \ {todas} :
                      df_pendentes[i] \notin Range(df_filtrado(df_pendentes, f_uf))
                /\ df_pendentes[i] \in Range(df_filtrado(df_pendentes, todas))

\* C4: the load matrix of a selection: one row per (id, cliente) of the
\* selection holding, per product, the boxes of the selected orders of that
\* id, cliente and product, and in 'TOTAL CX' the sum of these; then the row
\* 'TOTAL CAIXAS' with the boxes per product and in 'TOTAL CX' the boxes of
\* the selection; then the row 'TOTAL PESO (kg)' with the weight per product
\* and in 'TOTAL CX' the weight of the selection.
C4_MatrizDeCarga ==
    pc["s1"] = "carga" =>
        LET df_sel == tela["s1"].df_sel
            f == tela["s1"].df_final
            prods == {df_sel[i].produto : i \in DOMAIN df_sel}
            chaves == {<<df_sel[i].id, df_sel[i].cliente>> : i \in DOMAIN df_sel}
            n == Cardinality(chaves)
            De(chave, p) == {i \in DOMAIN df_sel :
                               /\ <<df_sel[i].id, df_sel[i].cliente>> = chave
                               /\ df_sel[i].produto = p}
            Do(p) == {i \in DOMAIN df_sel : df_sel[i].produto = p}
        IN  /\ Range(f.columns) = prods \cup {TotalCx}
            /\ Len(f.rows) = n + 2
            /\ {f.rows[k].index : k \in 1..n} = chaves
            /\ \A k \in 1..n :
                  /\ \A p \in prods :
                        f.rows[k].vals[p] = CaixasEm(df_sel, De(f.rows[k].index, p))
                  /\ f.rows[k].vals[TotalCx] =
                        CaixasEm(df_sel, {i \in DOMAIN df_sel :
                            <<df_sel[i].id, df_sel[i].cliente>> = f.rows[k].index})
            /\ f.rows[n + 1].index = TotalCaixas
            /\ \A p \in prods : f.rows[n + 1].vals[p] = CaixasEm(df_sel, Do(p))
            /\ f.rows[n + 1].vals[TotalCx] = CaixasEm(df_sel, DOMAIN df_sel)
            /\ f.rows[n + 2].index = TotalPeso
            /\ \A p \in prods : f.rows[n + 2].vals[p] = PesoEm(df_sel, Do(p))
            /\ f.rows[n + 2].vals[TotalCx] = PesoEm(df_sel, DOMAIN df_sel)

\* C4 witness: the matrix of two orders of different ids and products.
C4_Witness ==
    /\ pc["s1"] = "carga"
    /\ Len(tela["s1"].df_sel) = 2
    /\ tela["s1"].df_sel[1].id # tela["s1"].df_sel[2].id
    /\ tela["s1"].df_sel[1].produto # tela["s1"].df_sel[2].produto

\* C5: for an order in route of n boxes and a weight w of whole hundredths
\* of a kg, the delivered weight written to "historico" and the residual
\* weight written to "pedidos" (0 when no residual row is written) are
\* qtd_s * w / n and (n - qtd_s) * w / n rounded to the hundredth, their sum
\* is within one hundredth of w, and is w when qtd_s = n or qtd_s = 0.
C5_PesosReconstroem ==
    (pc["s1"] \in {"baixa_scan", "baixa_del", "rerun"} /\ tela["s1"].r.peso[2] = 1) =>
        LET t == tela["s1"]
            n == t.r.caixas
            w == t.r.peso[1]
            entregue == Ultimo(historico).peso
            residual == IF n - t.qtd_s > 0 THEN Ultimo(pedidos).peso ELSE Inteiro(0)
            d == entregue[1] + residual[1] - w
        IN  /\ entregue[2] = 1 /\ residual[2] = 1
            /\ 2 * Abs(n * entregue[1] - t.qtd_s * w) <= n
            /\ 2 * Abs(n * residual[1] - (n - t.qtd_s) * w) <= n
            /\ -1 <= d /\ d <= 1
            /\ (t.qtd_s = n \/ t.qtd_s = 0) => d = 0

\* C5 witness: a partial delivery whose two rounded weights do not add up to
\* the weight of the order.
C5_Witness ==
    /\ pc["s1"] = "rerun"
    /\ 0 < tela["s1"].qtd_s
    /\ tela["s1"].qtd_s < tela["s1"].r.caixas
    /\ Ultimo(historico).peso[1] + Ultimo(pedidos).peso[1] # tela["s1"].r.peso[1]

\* C6: the weight per box of an order (weight / boxes) never changes, so
\* that every split of the order uses the weight per box it had at creation.
\* Step by step: a step that rewrites rows keeps the weight per box of each, a
\* step that appends a row gives it the weight per box of the rows that
\* already carry its id, and a step that removes rows leaves the others as
\* they were.
C6_PesoPorCaixaImutavel ==
    [][ /\ Len(pedidos') = Len(pedidos) =>
              \A i \in DOMAIN pedidos : MesmoPesoPorCaixa(pedidos[i], pedidos'[i])
        /\ Len(pedidos') > Len(pedidos) =>
              /\ UmaAMais(pedidos', pedidos)
              /\ \A i \in DOMAIN pedidos :
                    pedidos[i].id = Ultimo(pedidos').id =>
                        MesmoPesoPorCaixa(pedidos[i], Ultimo(pedidos'))
        /\ Len(pedidos') < Len(pedidos) =>
              \A j \in DOMAIN pedidos' : \E i \in DOMAIN pedidos : pedidos[i] = pedidos'[j]
      ]_vars

\* What does hold of the weight per box: edits, dispatches, returns and the
\* delete of step 3 keep it for every row; the one step that does not is the
\* append of the residual row of a partial delivery, whose weight is within
\* half a hundredth of a kg of residual boxes x weight per box of the row
\* reconciled.
PesoPorCaixaSalvoArredondamento ==
    [][ /\ Len(pedidos') = Len(pedidos) =>
              \A i \in DOMAIN pedidos : MesmoPesoPorCaixa(pedidos[i], pedidos'[i])
        /\ Len(pedidos') > Len(pedidos) =>
              /\ UmaAMais(pedidos', pedidos)
              /\ pc["s1"] = "baixa_sobra"
              /\ Ultimo(pedidos').id = tela["s1"].r.id
              /\ Ultimo(pedidos').caixas = tela["s1"].r.caixas - tela["s1"].qtd_s
              /\ AteMeio(RacSoma(Ultimo(pedidos').peso,
                     RacVezes(-Ultimo(pedidos').caixas,
                              RacDiv(tela["s1"].r.peso, tela["s1"].r.caixas))))
        /\ Len(pedidos') < Len(pedidos) =>
              \A j \in DOMAIN pedidos' : \E i \in DOMAIN pedidos : pedidos[i] = pedidos'[j]
      ]_vars

\* the residual row of a partial delivery stands beside the original row
\* with another weight per box
SobraComOutroPesoPorCaixa ==
    /\ pc["s1"] = "baixa_scan"
    /\ tela["s1"].qtd_s < tela["s1"].r.caixas
    /\ ~MesmoPesoPorCaixa(tela["s1"].r, Ultimo(pedidos))

\* C7: the writes of a reconciliation come in the order history entry,
\* residual row, delete.  A run that fails after the first write and before
\* the delete leaves the new history entry and the original row 'em rota'
\* both in the store (with the residual row, if it was written), and at no
\* point of a run is the order in neither "pedidos" nor "historico".
C7_FalhaDeixaDuplicado ==
    LET t == tela["s1"]
        lancado == /\ UmaAMais(historico, t.hist0)
                   /\ Ultimo(historico).id = t.r.id
                   /\ Ultimo(historico).caixas = t.qtd_s
        original == \E i \in DOMAIN pedidos : pedidos[i] = t.r
        com_sobra == /\ UmaAMais(pedidos, t.df)
                     /\ Ultimo(pedidos).id = t.r.id
                     /\ Ultimo(pedidos).status = "pendente"
        depois_de(etapa) ==
            /\ etapa = "baixa_hist" => historico = t.hist0 /\ pedidos = t.df
            /\ etapa = "baixa_sobra" => lancado /\ pedidos = t.df
            /\ etapa \in {"baixa_scan", "baixa_del"} =>
                  /\ lancado
                  /\ original
                  /\ IF t.qtd_s < t.r.caixas THEN com_sobra ELSE pedidos = t.df
    IN  /\ pc["s1"] \in {"baixa_hist", "baixa_sobra", "baixa_scan", "baixa_del"} =>
              depois_de(pc["s1"])
        /\ pc["s1"] = "erro" => depois_de(t.etapa)
        /\ pc["s1"] \in {"baixa_hist", "baixa_sobra", "baixa_scan", "baixa_del",
                         "erro", "rerun"} =>
              t.r.id \in Ids(pedidos) \cup Ids(historico)

\* C7 witness: the delete has failed after both appends: the order is in
\* "historico", in "pedidos" as 'em rota' and in "pedidos" as a residual.
C7_Witness ==
    /\ pc["s1"] = "erro"
    /\ tela["s1"].etapa = "baixa_del"
    /\ 0 < tela["s1"].qtd_s
    /\ tela["s1"].qtd_s < tela["s1"].r.caixas
    /\ Ultimo(historico).id = tela["s1"].r.id
    /\ \E i \in DOMAIN pedidos : pedidos[i] = tela["s1"].r
    /\ Ultimo(pedidos).id = tela["s1"].r.id

\* the rows of seq that carry the id
ComId(seq, id) == SelectSeq(seq, LAMBDA o : o.id = id)

\* C8: when two sessions have both reconciled the same row 'em rota', both
\* history entries are in "historico" (the boxes delivered under the id are
\* the sum of the two quantities) and the original row is gone.
C8_CorridaDuplica ==
    (pc["s1"] = "rerun" /\ pc["s2"] = "rerun" /\ tela["s1"].r = tela["s2"].r) =>
        LET r == tela["s1"].r
        IN  /\ Len(ComId(historico, r.id)) = 2
            /\ SomaCaixas(ComId(historico, r.id)) = tela["s1"].qtd_s + tela["s2"].qtd_s
            /\ \A i \in DOMAIN pedidos : pedidos[i] # r

\* C8 witness: after the two runs the boxes delivered under the id plus the
\* boxes left under it in "pedidos" exceed the boxes of the order, and
\* "pedidos" holds two rows with the id.
C8_Witness ==
    /\ pc["s1"] = "rerun"
    /\ pc["s2"] = "rerun"
    /\ tela["s1"].r = tela["s2"].r
    /\ LET r == tela["s1"].r
       IN  /\ SomaCaixas(ComId(historico, r.id)) + SomaCaixas(ComId(pedidos, r.id))
                 > r.caixas
           /\ Len(ComId(pedidos, r.id)) = 2

\* C9: between the runs of a session that neither edits nor deletes, the
\* boxes in "pedidos" plus the boxes delivered in "historico" are the boxes
\* entered; a dispatch or a return changes nothing but the status column.
C9_CaixasConservadas ==
    [][ /\ pc'["s1"] \in {"login", "menu"} =>
              SomaCaixas(pedidos') + SomaCaixas(historico') = criadas'
        /\ (pc'["s1"] = "menu" /\ pedidos' # pedidos /\ Len(pedidos') = Len(pedidos)
                /\ pc["s1"] # "baixa_del") =>
              /\ historico' = historico
              /\ criadas' = criadas
              /\ \A i \in DOMAIN pedidos :
                    pedidos'[i] = [pedidos[i] EXCEPT !.status = pedidos'[i].status] ]_vars

\* C9 witness: an order was delivered in part and its residual dispatched
\* again.
C9_Witness ==
    /\ pc["s1"] = "menu"
    /\ historico # <<>>
    /\ Ultimo(historico).caixas > 0
    /\ \E i \in DOMAIN pedidos :
          pedidos[i].id = Ultimo(historico).id /\ pedidos[i].status = "em rota"

\* C10: the id a new order would get is the id of no row of "pedidos" and of
\* no entry of "historico".
C10_IdNovo ==
    pc["s1"] \in {"menu", "carga", "rerun"} =>
        proximo_id(pedidos) \notin Ids(pedidos) \cup Ids(historico)

====
